---- MODULE Spec2Model ----
(***************************************************************************)
(* Model of the vexo dashboard's two client pages:                         *)
(*   - ServicesPage (services poller / restart state machine)              *)
(*   - LibraryPageClient (library filter / sort / aggregate engine)        *)
(* Strings that the code inspects character by character (titles, genre    *)
(* fields, rendered durations) are sequences of one-character strings.     *)
(* A nullable field is a sequence of length at most one: << >> is null,    *)
(* <<v>> is the value v.                                                   *)
(***************************************************************************)
EXTENDS Integers, Sequences, FiniteSets, Bags, TLC

VARIABLES
    \* ---- ServicesPage ----
    view,                \* "constructed" | "active" | "unmounted" (effect lifecycle)
    services,            \* useState<Service[]>([])
    restartingServices,  \* useState<Set<string>>(new Set())
    loading,             \* useState(true)
    error,               \* useState<string | null>(null)
    tasks,               \* bag of suspended async invocations (fetchServices / handleRestart)
    lastCompleted,       \* history: outcome of the fetchServices invocation that
                         \* completed last, and the body of the latest 2xx answer
    prevKind,            \* history: outcome of the completion before that one
    \* ---- LibraryPageClient ----
    initialLibrary,      \* the initialLibrary prop
    searchQuery,         \* useState('')
    genreFilter,         \* useState('all')
    sourceFilter,        \* useState('all')
    sortBy,              \* useState('recent')
    filteredLibrary,     \* the memoised filtered and sorted view
    cleared,             \* history: the handler that ran last was clearFilters
    \* ---- LibraryCard duration cell ----
    duration_seconds,    \* the item's duration_seconds (nullable)
    durationText         \* the text in the duration cell; << >> before the first render

servicesVars == <<view, services, restartingServices, loading, error, tasks,
                  lastCompleted, prevKind>>
libraryVars == <<initialLibrary, searchQuery, genreFilter, sourceFilter, sortBy,
                 filteredLibrary, cleared>>
durationVars == <<duration_seconds, durationText>>
vars == <<servicesVars, libraryVars, durationVars>>

(***************************************************************************)
(* Bounds                                                                  *)
(***************************************************************************)
\* fetchServices invocations started by the effect, the interval and the
\* refresh button that may be suspended at once
MaxPolls == 2
\* handleRestart invocations that may be suspended at once
MaxRestarts == 2

(***************************************************************************)
(* ServicesPage: data                                                      *)
(***************************************************************************)
Null == "null"

ErrorMessage == "Failed to connect to bot API"

FallbackServices ==
    << [id |-> "bot", name |-> "Discord Bot",
        description |-> "Core Discord bot handling commands and audio playback",
        status |-> "offline", uptime |-> "-", restartable |-> TRUE],
       [id |-> "dashboard", name |-> "Dashboard",
        description |-> "This Next.js web dashboard",
        status |-> "online", uptime |-> "Running", restartable |-> FALSE] >>

\* Service lists the status API may answer with.
ServerLists ==
    { << [id |-> "bot", name |-> "Discord Bot", description |-> "bot",
          status |-> "online", uptime |-> "2h", restartable |-> TRUE],
         [id |-> "dashboard", name |-> "Dashboard", description |-> "web",
          status |-> "online", uptime |-> "2h", restartable |-> FALSE] >>,
      << [id |-> "bot", name |-> "Discord Bot", description |-> "bot",
          status |-> "starting", uptime |-> "0s", restartable |-> TRUE],
         [id |-> "lavalink", name |-> "Lavalink", description |-> "audio",
          status |-> "offline", uptime |-> "-", restartable |-> TRUE] >> }

\* JSON bodies of a 2xx GET /services: {services: [...]} or an object without
\* the services field.
NoServicesField == [hasServices |-> FALSE, services |-> << >>]

ServerBodies ==
    { [hasServices |-> TRUE, services |-> l] : l \in ServerLists } \cup {NoServicesField}

ServiceIds == {"bot", "dashboard", "lavalink"}

NoCompletion == [kind |-> "none", body |-> NoServicesField]

\* A suspended fetchServices invocation, by caller.
FetchTask(caller) ==
    [caller |-> caller, id |-> "-", pc |-> "fetch", outcome |-> "-",
     waited |-> FALSE, refreshed |-> FALSE]

\* A suspended handleRestart invocation awaiting the POST.
RestartTask(serviceId) ==
    [caller |-> "restart", id |-> serviceId, pc |-> "post", outcome |-> "pending",
     waited |-> FALSE, refreshed |-> FALSE]

Put(t) == tasks (+) SetToBag({t})
Swap(t, u) == (tasks (-) SetToBag({t})) (+) SetToBag({u})
Drop(t) == tasks (-) SetToBag({t})

Suspended == BagToSet(tasks)

Count(S) ==
    LET RECURSIVE Total(_)
        Total(T) == IF T = {} THEN 0
                  ELSE LET x == CHOOSE y \in T : TRUE
                       IN CopiesIn(x, tasks) + Total(T \ {x})
    IN Total(S)

PollsInFlight == Count({t \in Suspended : t.caller # "restart"})
RestartsInFlight == Count({t \in Suspended : t.caller = "restart"})
RestartsOf(serviceId) == Count({t \in Suspended : t.caller = "restart" /\ t.id = serviceId})

(***************************************************************************)
(* ServicesPage: fetchServices                                             *)
(***************************************************************************)
\* the caller's continuation once fetchServices has settled: handleRestart
\* resumes after its await, the other callers drop the promise
fetchServicesReturn(t) ==
    tasks' = IF t.caller = "restart"
             THEN Swap(t, [t EXCEPT !.pc = "resume", !.refreshed = TRUE])
             ELSE Drop(t)

\* fetchServicesSuccess without setError(null)
fetchServicesSuccess_KeepError(t, data) ==
    /\ services' = IF data.hasServices THEN data.services ELSE << >>
    /\ error' = error
    /\ loading' = FALSE
    /\ prevKind' = lastCompleted.kind
    /\ lastCompleted' = [kind |-> "ok", body |-> data]
    /\ fetchServicesReturn(t)

\* try branch after response.json(): setServices(data.services || []); setError(null)
\* finally: setLoading(false)
fetchServicesSuccess(t, data) ==
    /\ services' = IF data.hasServices THEN data.services ELSE << >>
    /\ error' = Null
    /\ loading' = FALSE
    /\ prevKind' = lastCompleted.kind
    /\ lastCompleted' = [kind |-> "ok", body |-> data]
    /\ fetchServicesReturn(t)

\* fetchServicesCatch without setServices(fallback)
fetchServicesCatch_KeepList(t) ==
    /\ services' = services
    /\ error' = ErrorMessage
    /\ loading' = FALSE
    /\ prevKind' = lastCompleted.kind
    /\ lastCompleted' = [kind |-> "failed", body |-> lastCompleted.body]
    /\ fetchServicesReturn(t)

\* catch branch: setError(...); setServices(fallback); finally: setLoading(false)
fetchServicesCatch(t) ==
    /\ services' = FallbackServices
    /\ error' = ErrorMessage
    /\ loading' = FALSE
    /\ prevKind' = lastCompleted.kind
    /\ lastCompleted' = [kind |-> "failed", body |-> lastCompleted.body]
    /\ fetchServicesReturn(t)

\* fetch() rejects: transport failure
FetchTransportError(t) ==
    /\ t.pc = "fetch"
    /\ fetchServicesCatch(t)
    /\ UNCHANGED <<view, restartingServices>>
    /\ UNCHANGED <<libraryVars, durationVars>>

\* fetch() resolves with a non-2xx response: !response.ok throws
FetchNotOk(t) ==
    /\ t.pc = "fetch"
    /\ fetchServicesCatch(t)
    /\ UNCHANGED <<view, restartingServices>>
    /\ UNCHANGED <<libraryVars, durationVars>>

\* fetch() resolves with a 2xx response: await response.json()
FetchOk(t) ==
    /\ t.pc = "fetch"
    /\ tasks' = Swap(t, [t EXCEPT !.pc = "json"])
    /\ UNCHANGED <<view, services, restartingServices, loading, error,
                   lastCompleted, prevKind>>
    /\ UNCHANGED <<libraryVars, durationVars>>

\* response.json() resolves with the body
JsonParsed(t, data) ==
    /\ t.pc = "json"
    /\ fetchServicesSuccess(t, data)
    /\ UNCHANGED <<view, restartingServices>>
    /\ UNCHANGED <<libraryVars, durationVars>>

\* response.json() rejects (the body is not JSON)
JsonInvalid(t) ==
    /\ t.pc = "json"
    /\ fetchServicesCatch(t)
    /\ UNCHANGED <<view, restartingServices>>
    /\ UNCHANGED <<libraryVars, durationVars>>

(***************************************************************************)
(* ServicesPage: effect, interval, refresh button                          *)
(***************************************************************************)
\* useEffect body: fetchServices(); setInterval(fetchServices, 30000)
Mount ==
    /\ view = "constructed"
    /\ view' = "active"
    /\ tasks' = Put(FetchTask("effect"))
    /\ UNCHANGED <<services, restartingServices, loading, error, lastCompleted, prevKind>>
    /\ UNCHANGED <<libraryVars, durationVars>>

\* IntervalTick with an interval that the cleanup does not clear
IntervalTick_NotCleared ==
    /\ view # "constructed"
    /\ PollsInFlight < MaxPolls
    /\ tasks' = Put(FetchTask("interval"))
    /\ UNCHANGED <<view, services, restartingServices, loading, error,
                   lastCompleted, prevKind>>
    /\ UNCHANGED <<libraryVars, durationVars>>

\* the interval fires
IntervalTick ==
    /\ view = "active"
    /\ PollsInFlight < MaxPolls
    /\ tasks' = Put(FetchTask("interval"))
    /\ UNCHANGED <<view, services, restartingServices, loading, error,
                   lastCompleted, prevKind>>
    /\ UNCHANGED <<libraryVars, durationVars>>

\* RefreshClick with fetchServices calling setLoading(true) on entry
RefreshClick_SetsLoading ==
    /\ view = "active"
    /\ ~loading
    /\ PollsInFlight < MaxPolls
    /\ tasks' = Put(FetchTask("refresh"))
    /\ loading' = TRUE
    /\ UNCHANGED <<view, services, restartingServices, error,
                   lastCompleted, prevKind>>
    /\ UNCHANGED <<libraryVars, durationVars>>

\* the Refresh button: onClick={fetchServices} disabled={loading}
RefreshClick ==
    /\ view = "active"
    /\ ~loading
    /\ PollsInFlight < MaxPolls
    /\ tasks' = Put(FetchTask("refresh"))
    /\ UNCHANGED <<view, services, restartingServices, loading, error,
                   lastCompleted, prevKind>>
    /\ UNCHANGED <<libraryVars, durationVars>>

\* effect cleanup: clearInterval(interval)
Unmount ==
    /\ view = "active"
    /\ view' = "unmounted"
    /\ UNCHANGED <<services, restartingServices, loading, error, tasks,
                   lastCompleted, prevKind>>
    /\ UNCHANGED <<libraryVars, durationVars>>

(***************************************************************************)
(* ServicesPage: restart                                                   *)
(***************************************************************************)
\* actualStatus without the isRestarting test
actualStatus_ServerWins(service, isRestarting) == service.status

\* ServiceCard: const actualStatus = isRestarting ? 'restarting' : service.status
actualStatus(service, isRestarting) ==
    IF isRestarting THEN "restarting" ELSE service.status

\* the cards on screen: the skeleton while loading, otherwise one ServiceCard
\* per entry of services with isRestarting = restartingServices.has(service.id)
cards ==
    IF loading THEN << >>
    ELSE [i \in DOMAIN services |->
            [id |-> services[i].id,
             status |-> actualStatus(services[i], services[i].id \in restartingServices)]]

\* ButtonDisabled without the isRestarting disjunct
ButtonDisabled_NoDebounce(service) == ~service.restartable

\* ServiceCard: disabled={isRestarting || !service.restartable}
ButtonDisabled(service) ==
    service.id \in restartingServices \/ ~service.restartable

\* handleRestart building the new set without the previous members
handleRestart_DropsPrev(serviceId) ==
    /\ restartingServices' = {serviceId}
    /\ tasks' = Put(RestartTask(serviceId))
    /\ UNCHANGED <<view, services, loading, error, lastCompleted, prevKind>>

\* setRestartingServices(prev => new Set(prev).add(serviceId)); fetch(.../restart, POST)
handleRestart(serviceId) ==
    /\ restartingServices' = restartingServices \cup {serviceId}
    /\ tasks' = Put(RestartTask(serviceId))
    /\ UNCHANGED <<view, services, loading, error, lastCompleted, prevKind>>

\* a click on the Restart button of the i-th rendered card
RestartClick(i) ==
    /\ view = "active"
    /\ ~loading
    /\ i \in DOMAIN services
    /\ ~ButtonDisabled(services[i])
    /\ RestartsInFlight < MaxRestarts
    /\ handleRestart(services[i].id)
    /\ UNCHANGED <<libraryVars, durationVars>>

\* handleRestartFinally with the delete on the success path only
handleRestartFinally_Leak(t) ==
    /\ restartingServices' = IF t.pc = "resume" THEN restartingServices \ {t.id}
                             ELSE restartingServices
    /\ tasks' = Drop(t)

\* finally: setRestartingServices(prev => { next.delete(serviceId) })
handleRestartFinally(t) ==
    /\ restartingServices' = restartingServices \ {t.id}
    /\ tasks' = Drop(t)

\* the POST rejects (transport failure): catch, finally
RestartTransportError(t) ==
    /\ t.caller = "restart" /\ t.pc = "post"
    /\ handleRestartFinally(t)
    /\ UNCHANGED <<view, services, loading, error, lastCompleted, prevKind>>
    /\ UNCHANGED <<libraryVars, durationVars>>

\* the POST resolves non-2xx: await response.json().catch(() => ({}))
RestartNotOk(t) ==
    /\ t.caller = "restart" /\ t.pc = "post"
    /\ tasks' = Swap(t, [t EXCEPT !.pc = "errbody", !.outcome = "rejected"])
    /\ UNCHANGED <<view, services, restartingServices, loading, error,
                   lastCompleted, prevKind>>
    /\ UNCHANGED <<libraryVars, durationVars>>

\* RestartRejected with the catch block calling setError
RestartRejected_SetsError(t) ==
    /\ t.caller = "restart" /\ t.pc = "errbody"
    /\ handleRestartFinally(t)
    /\ error' = ErrorMessage
    /\ UNCHANGED <<view, services, loading, lastCompleted, prevKind>>
    /\ UNCHANGED <<libraryVars, durationVars>>

\* the error body settles: throw new Error(...); catch, finally
RestartRejected(t) ==
    /\ t.caller = "restart" /\ t.pc = "errbody"
    /\ handleRestartFinally(t)
    /\ UNCHANGED <<view, services, loading, error, lastCompleted, prevKind>>
    /\ UNCHANGED <<libraryVars, durationVars>>

\* RestartOk without the setTimeout wait
RestartOk_NoWait(t) ==
    /\ t.caller = "restart" /\ t.pc = "post"
    /\ tasks' = Swap(t, [t EXCEPT !.pc = "fetch", !.outcome = "ok"])
    /\ UNCHANGED <<view, services, restartingServices, loading, error,
                   lastCompleted, prevKind>>
    /\ UNCHANGED <<libraryVars, durationVars>>

\* the POST resolves 2xx: await new Promise(resolve => setTimeout(resolve, 5000))
RestartOk(t) ==
    /\ t.caller = "restart" /\ t.pc = "post"
    /\ tasks' = Swap(t, [t EXCEPT !.pc = "wait", !.outcome = "ok"])
    /\ UNCHANGED <<view, services, restartingServices, loading, error,
                   lastCompleted, prevKind>>
    /\ UNCHANGED <<libraryVars, durationVars>>

\* the 5 second timeout fires: await fetchServices()
GraceElapsed(t) ==
    /\ t.caller = "restart" /\ t.pc = "wait"
    /\ tasks' = Swap(t, [t EXCEPT !.pc = "fetch", !.waited = TRUE])
    /\ UNCHANGED <<view, services, restartingServices, loading, error,
                   lastCompleted, prevKind>>
    /\ UNCHANGED <<libraryVars, durationVars>>

\* fetchServices() has settled: leave the try block, finally
RestartDone(t) ==
    /\ t.caller = "restart" /\ t.pc = "resume"
    /\ handleRestartFinally(t)
    /\ UNCHANGED <<view, services, loading, error, lastCompleted, prevKind>>
    /\ UNCHANGED <<libraryVars, durationVars>>

\* every step of the handleRestart invocation for serviceId, the steps of the
\* fetchServices call it awaits included
RestartProgress(serviceId) ==
    \E t \in Suspended :
        /\ t.caller = "restart" /\ t.id = serviceId
        /\ \/ RestartTransportError(t)
           \/ RestartNotOk(t)
           \/ RestartRejected(t)
           \/ RestartOk(t)
           \/ GraceElapsed(t)
           \/ FetchTransportError(t)
           \/ FetchNotOk(t)
           \/ FetchOk(t)
           \/ JsonInvalid(t)
           \/ \E data \in ServerBodies : JsonParsed(t, data)
           \/ RestartDone(t)

(***************************************************************************)
(* ServicesPage: specification                                             *)
(***************************************************************************)
\* the state after construction; the other page and the card are not in use
Init ==
    /\ view = "constructed"
    /\ services = << >>
    /\ restartingServices = {}
    /\ loading = TRUE
    /\ error = Null
    /\ tasks = EmptyBag
    /\ lastCompleted = NoCompletion
    /\ prevKind = "none"
    /\ initialLibrary = << >>
    /\ searchQuery = << >>
    /\ genreFilter = <<"a", "l", "l">>
    /\ sourceFilter = <<"a", "l", "l">>
    /\ sortBy = "recent"
    /\ filteredLibrary = << >>
    /\ cleared = FALSE
    /\ duration_seconds = << >>
    /\ durationText = << >>

Next ==
    \/ Mount
    \/ IntervalTick
    \/ RefreshClick
    \/ Unmount
    \/ \E i \in DOMAIN services : RestartClick(i)
    \/ \E t \in Suspended : FetchTransportError(t)
    \/ \E t \in Suspended : FetchNotOk(t)
    \/ \E t \in Suspended : FetchOk(t)
    \/ \E t \in Suspended : JsonInvalid(t)
    \/ \E t \in Suspended, data \in ServerBodies : JsonParsed(t, data)
    \/ \E t \in Suspended : RestartTransportError(t)
    \/ \E t \in Suspended : RestartNotOk(t)
    \/ \E t \in Suspended : RestartRejected(t)
    \/ \E t \in Suspended : RestartOk(t)
    \/ \E t \in Suspended : GraceElapsed(t)
    \/ \E t \in Suspended : RestartDone(t)

Spec == Init /\ [][Next]_vars

\* the network and the timers are live: every suspended handleRestart
\* invocation eventually takes its next step
FairSpec == Spec /\ \A serviceId \in ServiceIds : WF_vars(RestartProgress(serviceId))

(***************************************************************************)
(* ServicesPage: properties                                                *)
(***************************************************************************)
RestartTasks == {t \in Suspended : t.caller = "restart"}

PostsInFlight(serviceId) ==
    Count({t \in RestartTasks : t.id = serviceId /\ t.pc = "post"})

RestartBlocked(serviceId) ==
    \/ serviceId \in restartingServices
    \/ \E i \in DOMAIN services :
          services[i].id = serviceId /\ ~services[i].restartable

\* C1: a restart of a service whose restartable flag is false or whose id is
\* already in RestartSet does nothing: no step sends a restart command for it
\* or adds it to RestartSet; hence at most one restart attempt per service id
\* is in flight in every reachable state.
C1_RestartDebounced ==
    /\ [](\A serviceId \in ServiceIds : RestartsOf(serviceId) <= 1)
    /\ [][\A serviceId \in ServiceIds :
            RestartBlocked(serviceId) =>
                /\ PostsInFlight(serviceId)' <= PostsInFlight(serviceId)
                /\ RestartsOf(serviceId)' <= RestartsOf(serviceId)
                /\ (serviceId \notin restartingServices
                        => serviceId \notin restartingServices')]_vars

\* C1 witness: the card of a restartable service is on screen while its
\* restart is in flight, and the model would still accept another restart task.
C1_Witness ==
    /\ view = "active" /\ ~loading
    /\ RestartsInFlight < MaxRestarts
    /\ \E i \in DOMAIN services :
          /\ services[i].restartable
          /\ services[i].id \in restartingServices
          /\ RestartsOf(services[i].id) = 1

\* C2 as stated: whenever an id leaves RestartSet, its restart attempt has
\* waited the grace period and has refreshed the list, whatever the command's
\* outcome was.
C2_WaitsWhateverTheOutcome ==
    [][\A serviceId \in ServiceIds :
          (serviceId \in restartingServices /\ serviceId \notin restartingServices')
              => \E t \in RestartTasks :
                    t.id = serviceId /\ t.waited /\ t.refreshed]_vars

\* C2 amended: after a 2xx answer the grace wait elapses, then fetchServices
\* is invoked and awaited, and only then the id leaves RestartSet; after a
\* non-2xx answer or a transport failure the id leaves RestartSet with neither
\* the wait nor the refresh.
C2_WaitsOnlyAfterOk ==
    /\ [](\A t \in RestartTasks :
            /\ t.id \in restartingServices
            /\ (t.pc \in {"fetch", "json"} => t.waited /\ ~t.refreshed)
            /\ (t.refreshed => t.waited /\ t.pc = "resume")
            /\ (t.waited => t.outcome = "ok")
            /\ (t.outcome = "ok" <=> t.pc \in {"wait", "fetch", "json", "resume"}))
    /\ [][\A serviceId \in ServiceIds :
            (serviceId \in restartingServices /\ serviceId \notin restartingServices')
                => \E t \in RestartTasks :
                      /\ t.id = serviceId
                      /\ \/ t.outcome = "ok" /\ t.waited /\ t.refreshed
                         \/ t.outcome # "ok" /\ ~t.waited /\ ~t.refreshed]_vars

\* C2 witness: an accepted restart has waited and refreshed and is about to
\* remove its id.
C2_Witness ==
    \E t \in RestartTasks :
        t.outcome = "ok" /\ t.waited /\ t.refreshed /\ t.id \in restartingServices

\* C3: every id that enters RestartSet eventually leaves it, whatever the
\* outcome of the restart command and of the follow-up fetchServices.
C3_EventuallyLeaves ==
    \A serviceId \in ServiceIds :
        (serviceId \in restartingServices) ~> (serviceId \notin restartingServices)

\* C3 witness: a restart whose follow-up fetchServices failed still holds its
\* id and is about to release it.
C3_Witness ==
    \E t \in RestartTasks :
        /\ t.pc = "resume"
        /\ lastCompleted.kind = "failed"
        /\ error = ErrorMessage
        /\ t.id \in restartingServices

ResponseList(body) == IF body.hasServices THEN body.services ELSE << >>

\* task t, suspended inside fetchServices, settles in this step (it is no
\* longer suspended where it was, and has not just moved on to response.json())
LeftAwait(t) ==
    /\ CopiesIn(t, tasks') < CopiesIn(t, tasks)
    /\ CopiesIn([t EXCEPT !.pc = "json"], tasks') <= CopiesIn([t EXCEPT !.pc = "json"], tasks)

\* C4: after a failed fetchServices the list is the two-entry fallback and the
\* error flag is set; after a successful one the flag is clear and the list is
\* the response's list; a failure inside fetchServices lets the awaiting
\* caller resume normally.
C4_FallbackAndRecovery ==
    /\ [](/\ lastCompleted.kind = "failed"
                => services = FallbackServices /\ error = ErrorMessage
          /\ lastCompleted.kind = "ok"
                => services = ResponseList(lastCompleted.body) /\ error = Null
          /\ Len(FallbackServices) = 2
          /\ FallbackServices[1].id = "bot"
          /\ FallbackServices[1].status = "offline"
          /\ FallbackServices[1].restartable
          /\ FallbackServices[2].id = "dashboard"
          /\ FallbackServices[2].status = "online"
          /\ ~FallbackServices[2].restartable)
    /\ [][\A t \in RestartTasks :
            (t.pc \in {"fetch", "json"} /\ LeftAwait(t))
                => CopiesIn([t EXCEPT !.pc = "resume", !.refreshed = TRUE], tasks')
                       > CopiesIn([t EXCEPT !.pc = "resume", !.refreshed = TRUE], tasks)]_vars

\* C4 witness: a successful fetchServices has completed right after a failed one.
C4_Witness ==
    /\ lastCompleted.kind = "ok"
    /\ prevKind = "failed"
    /\ error = Null
    /\ services \in ServerLists

\* the status the latest 2xx answer of the status API gave for serviceId
reportedStatus(serviceId) ==
    LET list == ResponseList(lastCompleted.body)
    IN IF \E j \in DOMAIN list : list[j].id = serviceId
       THEN list[CHOOSE j \in DOMAIN list : list[j].id = serviceId].status
       ELSE "none"

\* the status of serviceId in the list written by the fetchServices invocation
\* that completed last: the server's after a success, the fallback's after a
\* failure
listedStatus(serviceId) ==
    IF lastCompleted.kind = "ok" THEN reportedStatus(serviceId)
    ELSE FallbackServices[CHOOSE j \in DOMAIN FallbackServices :
                              FallbackServices[j].id = serviceId].status

\* the card of serviceId, if there is one, shows the status of its list entry
ListedStatusShown(serviceId) ==
    \A i \in DOMAIN cards :
        cards[i].id = serviceId => cards[i].status = listedStatus(serviceId)

\* C11 as stated: every card shows 'restarting' if its id is in RestartSet and
\* otherwise the status the server reported last for that id.
C11_RendersServerStatus ==
    \A i \in DOMAIN cards :
        cards[i].status = IF cards[i].id \in restartingServices THEN "restarting"
                          ELSE reportedStatus(cards[i].id)

\* C11 amended: every card shows 'restarting' if its id is in RestartSet and
\* otherwise the status of its entry in the current list, which is the
\* server's report after a successful fetchServices and the fallback's fixed
\* status after a failed one; a fetchServices completion that replaces the
\* list leaves RestartSet as it is, and once the id has left RestartSet the
\* card shows the entry's status again.
C11_RendersOverrideOrListed ==
    /\ [](\A i \in DOMAIN cards :
            /\ cards[i].id = services[i].id
            /\ cards[i].status = IF cards[i].id \in restartingServices THEN "restarting"
                                 ELSE services[i].status
            /\ services[i].status = listedStatus(services[i].id))
    /\ [][\A t \in Suspended :
            (t.pc \in {"fetch", "json"} /\ LeftAwait(t))
                => restartingServices' = restartingServices]_vars
    /\ [][\A serviceId \in ServiceIds :
            (serviceId \in restartingServices /\ serviceId \notin restartingServices')
                => ListedStatusShown(serviceId)']_vars

\* C11 witness: a poll has replaced the list with one that reports 'starting'
\* for a service whose restart is still in flight, and its card still shows
\* 'restarting'.
C11_Witness ==
    \E i \in DOMAIN cards :
        /\ cards[i].id \in restartingServices
        /\ services[i].status = "starting"
        /\ cards[i].status = "restarting"
        /\ \E t \in RestartTasks : t.id = cards[i].id /\ t.pc = "wait"

\* a handleRestart invocation for serviceId starts or ends in this step
RestartStartsOrEnds(serviceId) == RestartsOf(serviceId)' # RestartsOf(serviceId)

\* C12: restarts of different services are independent: while some id is in
\* RestartSet, the Restart button of a restartable service that is not in
\* RestartSet still starts a restart; a step that starts or ends the restart
\* of one id changes the membership of that id only; so RestartSet is exactly
\* the set of ids with a restart in flight.
C12_RestartsIndependent ==
    /\ [](\A i \in DOMAIN services :
            (/\ view = "active" /\ ~loading
             /\ restartingServices # {}
             /\ services[i].restartable
             /\ services[i].id \notin restartingServices)
                => ENABLED RestartClick(i))
    /\ [](\A serviceId \in ServiceIds :
            serviceId \in restartingServices <=> RestartsOf(serviceId) = 1)
    /\ [][\A serviceId \in ServiceIds :
            ((serviceId \in restartingServices) # (serviceId \in restartingServices'))
                => /\ RestartStartsOrEnds(serviceId)
                   /\ \A other \in ServiceIds \ {serviceId} :
                         /\ ~RestartStartsOrEnds(other)
                         /\ (other \in restartingServices) = (other \in restartingServices')]_vars

\* C12 witness: the restarts of two services overlap, one whose command was
\* rejected and one whose command was accepted.
C12_Witness ==
    \E t, u \in RestartTasks :
        /\ t.id # u.id
        /\ t.pc = "errbody" /\ u.pc = "wait"
        /\ {t.id, u.id} \subseteq restartingServices

\* the fetchServices invocations in flight, whoever started them
FetchesInFlight == {t \in Suspended : t.pc \in {"fetch", "json"}}

\* the callers whose fetchServices invocations are in flight
CallersInFlight == {t.caller : t \in FetchesInFlight}

\* the list and the flag are the pair one completion writes
WrittenTogether ==
    \/ services = FallbackServices /\ error = ErrorMessage
    \/ services = ResponseList(lastCompleted.body) /\ error = Null

\* C13: when fetchServices invocations of the timer, the refresh button and a
\* restart overlap, whichever of them settles writes the list and the error
\* flag as one pair (the fallback with the message, or the response's list
\* with no message), also while others are still in flight; once none is in
\* flight the list and the flag are those of the invocation that settled last.
C13_LastCompletionWins ==
    /\ [][\A t \in FetchesInFlight :
            LeftAwait(t) =>
                /\ WrittenTogether'
                /\ lastCompleted'.kind = "failed"
                        => services' = FallbackServices /\ error' = ErrorMessage
                /\ lastCompleted'.kind = "ok"
                        => /\ services' = ResponseList(lastCompleted'.body)
                           /\ error' = Null
                /\ lastCompleted'.kind # "none"
                /\ loading' = FALSE]_vars
    /\ []((FetchesInFlight = {} /\ lastCompleted.kind # "none")
            => /\ WrittenTogether
               /\ (lastCompleted.kind = "failed") = (error = ErrorMessage)
               /\ (lastCompleted.kind = "ok") = (error = Null))

\* C13 witness: invocations of the timer, the refresh button and a restart
\* are in flight at once, after a failed one has settled.
C13_Witness ==
    /\ {"interval", "refresh", "restart"} \subseteq CallersInFlight
    /\ lastCompleted.kind = "failed"
    /\ services = FallbackServices

\* task t, a handleRestart invocation suspended outside fetchServices, takes
\* its next step
RestartSteps(t) ==
    /\ t.pc \in {"post", "errbody", "wait", "resume"}
    /\ CopiesIn(t, tasks') < CopiesIn(t, tasks)

\* C14: the service list and the error flag change only in a step in which a
\* fetchServices invocation settles; adding an id to RestartSet, the answer
\* to the restart command (accepted, rejected or failed in transport), the
\* grace wait and removing an id from RestartSet leave both as they are.
C14_OnlyFetchWritesList ==
    /\ [][(services' # services \/ error' # error)
            => \E t \in FetchesInFlight : LeftAwait(t)]_vars
    /\ [][(\/ restartingServices' # restartingServices
           \/ RestartsInFlight' # RestartsInFlight
           \/ \E t \in RestartTasks : RestartSteps(t))
            => services' = services /\ error' = error]_vars

\* C14 witness: a restart command has been rejected while the list is the
\* server's and no error is shown.
C14_Witness ==
    /\ error = Null
    /\ services \in ServerLists
    /\ \E t \in RestartTasks :
          t.pc = "errbody" /\ t.outcome = "rejected" /\ t.id \in restartingServices

\* this step starts n fetchServices invocations on behalf of caller
Starts(caller, n) ==
    CopiesIn(FetchTask(caller), tasks') = CopiesIn(FetchTask(caller), tasks) + n

\* this step starts no fetchServices invocation on behalf of caller
StartsNone(caller) ==
    CopiesIn(FetchTask(caller), tasks') <= CopiesIn(FetchTask(caller), tasks)

\* C15: the step in which the view becomes active starts exactly one
\* fetchServices invocation and no other step starts one for the effect;
\* while the view is active the timer can tick, and a tick starts exactly one
\* invocation; once the view is torn down it stays so and no step starts an
\* invocation for the effect or the timer, while an invocation that is still
\* in flight can settle.
C15_PollsWhileActive ==
    /\ [][/\ view' # view =>
               \/ view = "constructed" /\ view' = "active"
               \/ view = "active" /\ view' = "unmounted"
          /\ (view = "constructed" /\ view' = "active")
               => Starts("effect", 1) /\ StartsNone("interval")
          /\ ~(view = "constructed" /\ view' = "active") => StartsNone("effect")
          /\ ~StartsNone("interval")
               => view = "active" /\ view' = "active" /\ Starts("interval", 1)
          /\ view = "unmounted"
               => StartsNone("effect") /\ StartsNone("interval")]_vars
    /\ []((view = "active" /\ PollsInFlight < MaxPolls) => ENABLED IntervalTick)
    /\ [](view # "active" => ~ENABLED IntervalTick)
    /\ [](\A t \in FetchesInFlight :
            view = "unmounted" => ENABLED (FetchNotOk(t) \/ JsonInvalid(t)))

\* C15 witness: the view has been torn down while an invocation started by
\* the timer is in flight, after an earlier invocation has settled.
C15_Witness ==
    /\ view = "unmounted"
    /\ "interval" \in CallersInFlight
    /\ lastCompleted.kind # "none"

\* C16: the error flag is set exactly when some fetchServices invocation has
\* settled and the one that settled last failed; when the flag is set the
\* list is the two-entry fallback; before any invocation has settled the list
\* is empty, the flag is clear and loading is set; loading, once false, stays
\* false.
C16_ErrorFollowsLastFetch ==
    /\ [](/\ (error # Null) <=> (lastCompleted.kind = "failed")
          /\ error # Null => services = FallbackServices /\ Len(services) = 2
          /\ lastCompleted.kind = "none"
                => services = << >> /\ error = Null /\ loading = TRUE
          /\ lastCompleted.kind # "none" => loading = FALSE)
    /\ [][loading = FALSE => loading' = FALSE]_vars

\* C16 witness: a fetchServices invocation has failed after an earlier one
\* succeeded, and another one is in flight.
C16_Witness ==
    /\ lastCompleted.kind = "failed"
    /\ prevKind = "ok"
    /\ error = ErrorMessage
    /\ loading = FALSE
    /\ FetchesInFlight # {}

(***************************************************************************)
(* LibraryPageClient: strings                                              *)
(***************************************************************************)
UpperCase ==
        << "A", "B", "C", "D", "E", "F", "G", "H", "I", "J", "K", "L", "M",
       "N", "O", "P", "Q", "R", "S", "T", "U", "V", "W", "X", "Y", "Z" >>

LowerCase ==
        << "a", "b", "c", "d", "e", "f", "g", "h", "i", "j", "k", "l", "m",
       "n", "o", "p", "q", "r", "s", "t", "u", "v", "w", "x", "y", "z" >>

\* the characters of the model in UTF-16 code unit order
CodeUnits ==
        << " ", ",", "-", "0", "1", "2", "3", "4", "5", "6", "7", "8", "9",
       ":", "A", "B", "C", "D", "E", "F", "G", "H", "I", "J", "K", "L",
       "M", "N", "O", "P", "Q", "R", "S", "T", "U", "V", "W", "X", "Y",
       "Z", "_", "a", "b", "c", "d", "e", "f", "g", "h", "i", "j", "k",
       "l", "m", "n", "o", "p", "q", "r", "s", "t", "u", "v", "w", "x",
       "y", "z" >>

\* the characters of the model in collation order (case folded)
CollationOrder ==
        << "_", "-", ",", ":", " ", "0", "1", "2", "3", "4", "5", "6", "7",
       "8", "9", "a", "b", "c", "d", "e", "f", "g", "h", "i", "j", "k",
       "l", "m", "n", "o", "p", "q", "r", "s", "t", "u", "v", "w", "x",
       "y", "z" >>

IndexIn(seq, c) == CHOOSE i \in 1..Len(seq) : seq[i] = c

Range(seq) == {seq[i] : i \in DOMAIN seq}

IsUpper(c) == c \in Range(UpperCase)

\* the lower case form of every character of the model
LowerOf ==
    [c \in Range(CodeUnits) |->
        IF IsUpper(c) THEN LowerCase[IndexIn(UpperCase, c)] ELSE c]

\* the place of every character of the model in UTF-16 code unit order
CodeUnitOf == [c \in Range(CodeUnits) |-> IndexIn(CodeUnits, c)]

\* the collation weight of every character of the model, case folded
CollationKeyOf == [c \in Range(CodeUnits) |-> IndexIn(CollationOrder, LowerOf[c])]

toLowerCaseChar(c) == LowerOf[c]

\* String.prototype.toLowerCase
toLowerCase(s) == [i \in 1..Len(s) |-> toLowerCaseChar(s[i])]

\* String.prototype.includes
includes(s, sub) ==
    \E i \in 0..(Len(s) - Len(sub)) : SubSeq(s, i + 1, i + Len(sub)) = sub

\* String.prototype.split(',')
split(s) ==
    LET RECURSIVE go(_, _, _)
        go(i, cur, acc) ==
            IF i > Len(s) THEN Append(acc, cur)
            ELSE IF s[i] = "," THEN go(i + 1, << >>, Append(acc, cur))
            ELSE go(i + 1, Append(cur, s[i]), acc)
    IN go(1, << >>, << >>)

\* String.prototype.trim
trim(s) ==
    LET RECURSIVE strip(_)
        strip(t) ==
            IF t = << >> THEN t
            ELSE IF Head(t) = " " THEN strip(Tail(t))
            ELSE IF t[Len(t)] = " " THEN strip(SubSeq(t, 1, Len(t) - 1))
            ELSE t
    IN strip(s)

\* the default order of Array.prototype.sort(): by UTF-16 code units
CodeUnitLess(a, b) ==
    \E i \in 1..(Len(a) + 1) :
        /\ i <= Len(b)
        /\ \A j \in 1..(i - 1) : a[j] = b[j]
        /\ \/ i = Len(a) + 1
           \/ CodeUnitOf[a[i]] < CodeUnitOf[b[i]]

\* String.prototype.localeCompare: letters compare without case first; strings
\* that differ only in case order lower case first
localeCompare(a, b) ==
    LET key(c) == CollationKeyOf[c]
        n == IF Len(a) < Len(b) THEN Len(a) ELSE Len(b)
        primary == {i \in 1..n : key(a[i]) # key(b[i])}
        tertiary == {i \in 1..n : a[i] # b[i]}
        first(D) == CHOOSE i \in D : \A j \in D : i <= j
    IN  IF primary # {}
        THEN (IF key(a[first(primary)]) < key(b[first(primary)]) THEN -1 ELSE 1)
        ELSE IF Len(a) # Len(b) THEN (IF Len(a) < Len(b) THEN -1 ELSE 1)
        ELSE IF tertiary # {}
        THEN (IF IsUpper(b[first(tertiary)]) THEN -1 ELSE 1)
        ELSE 0

\* new Date(last_added).getTime(), in milliseconds from the start of the month
getTime(last_added) == (last_added.day * 24 + last_added.hour) * 3600000

(***************************************************************************)
(* LibraryPageClient: data                                                 *)
(***************************************************************************)
\* items that may be in the library at once
MaxLibrary == 3

All == <<"a", "l", "l">>

EmptyString == << >>

Item1 ==
    [id |-> 1, title |-> <<"A", "b">>, artist_name |-> <<"X", "y">>, album |-> << >>,
     duration_seconds |-> <<125>>,
     genre |-> <<<<"P", "o", "p", ",", "R", "o", "c", "k">>>>,
     sources |-> <<<<"s", "p", "o", "t", "i", "f", "y", "_", "i", "m", "p", "o", "r", "t">>>>,
     last_added |-> [day |-> 5, hour |-> 0], play_count |-> 3, like_count |-> 1]

Item2 ==
    [id |-> 2, title |-> <<"a", "b">>, artist_name |-> <<"x", "y">>, album |-> <<<<"B", "a">>>>,
     duration_seconds |-> << >>,
     genre |-> <<<<"J", "a", "z", "z">>>>,
     sources |-> <<<<"r", "e", "q", "u", "e", "s", "t">>>>,
     last_added |-> [day |-> 4, hour |-> 1], play_count |-> 3, like_count |-> 0]

Item3 ==
    [id |-> 3, title |-> <<"B", "a">>, artist_name |-> <<"X", "y">>, album |-> << >>,
     duration_seconds |-> <<60>>,
     genre |-> <<<<"K", "-", "P", "o", "p">>>>,
     sources |-> <<<<"r", "e", "q", "u", "e", "s", "t", ",", " ", "l", "i", "k", "e">>>>,
     last_added |-> [day |-> 4, hour |-> 1], play_count |-> 0, like_count |-> 1]

Item4 ==
    [id |-> 4, title |-> <<"A", "b">>, artist_name |-> <<"Z", "a">>, album |-> <<<<"a", "b">>>>,
     duration_seconds |-> <<0>>,
     genre |-> << >>,
     sources |-> << >>,
     last_added |-> [day |-> 2, hour |-> 3], play_count |-> 1, like_count |-> 1]

Item5 ==
    [id |-> 5, title |-> <<"b">>, artist_name |-> <<"z", "a">>, album |-> << >>,
     duration_seconds |-> <<59>>,
     genre |-> <<<<"j", "a", "z", "z", ",", " ", "p", "o", "p">>>>,
     sources |-> <<<<"s", "p", "o", "t", "i", "f", "y", "_", "i", "m", "p", "o", "r", "t", ",", "r", "e", "q", "u", "e", "s", "t">>>>,
     last_added |-> [day |-> 1, hour |-> 0], play_count |-> 0, like_count |-> 2]

Pool == {Item1, Item2, Item3, Item4, Item5}

\* what the user may type into the search box
Queries == {EmptyString, <<"B", "A">>, <<"x", "Y">>}

SortKeys == {"recent", "title", "artist", "plays", "likes"}

\* getLibrary(limit): the most recent rows, newest first, ids unique
getLibrary ==
    { lib \in UNION { [1..n -> Pool] : n \in 0..MaxLibrary } :
        /\ \A i, j \in DOMAIN lib : i # j => lib[i].id # lib[j].id
        /\ \A i, j \in DOMAIN lib :
              i < j => getTime(lib[i].last_added) >= getTime(lib[j].last_added) }

(***************************************************************************)
(* LibraryPageClient: derived values                                       *)
(***************************************************************************)
\* the trimmed tokens of a nullable comma-joined field
tokens(field) ==
    IF field = << >> THEN {}
    ELSE LET parts == split(field[1]) IN {trim(parts[i]) : i \in DOMAIN parts}

\* allGenres / allSources: the distinct tokens (rendered in sorted order)
allGenres == UNION {tokens(initialLibrary[i].genre) : i \in DOMAIN initialLibrary}

allSources == UNION {tokens(initialLibrary[i].sources) : i \in DOMAIN initialLibrary}

\* allGenres.slice(0, 20)
GenreOptionLimit == 20

\* the values of the genre select: 'all' and the first genres in sorted order
genreOptions ==
    {All} \cup {g \in allGenres :
                  Cardinality({h \in allGenres : CodeUnitLess(h, g)}) < GenreOptionLimit}

\* the values of the source select
sourceOptions == {All} \cup allSources

\* item.title?.toLowerCase().includes(query) || artist_name || album
matchesSearch(item, query) ==
    \/ includes(toLowerCase(item.title), query)
    \/ includes(toLowerCase(item.artist_name), query)
    \/ (item.album # << >> /\ includes(toLowerCase(item.album[1]), query))

\* matchesField letting a null field pass
matchesField_NullPasses(field, selected) ==
    field = << >> \/ includes(toLowerCase(field[1]), toLowerCase(selected))

\* matchesField comparing whole tokens instead of testing containment
matchesField_ExactToken(field, selected) ==
    \E tok \in tokens(field) : toLowerCase(tok) = toLowerCase(selected)

\* item.genre?.toLowerCase().includes(genreFilter.toLowerCase()), and the same
\* for sources
matchesField(field, selected) ==
    field # << >> /\ includes(toLowerCase(field[1]), toLowerCase(selected))

\* the comparator handed to result.sort
compare(a, b, key) ==
    CASE key = "title" -> localeCompare(a.title, b.title)
      [] key = "artist" -> localeCompare(a.artist_name, b.artist_name)
      [] key = "plays" -> b.play_count - a.play_count
      [] key = "likes" -> b.like_count - a.like_count
      [] OTHER -> getTime(b.last_added) - getTime(a.last_added)

\* sort placing an item before the items it ties with
sort_Unstable(arr, key) ==
    LET insert(sorted, x) ==
            LET after == {i \in 1..Len(sorted) : compare(x, sorted[i], key) <= 0}
            IN  IF after = {} THEN Append(sorted, x)
                ELSE LET p == CHOOSE i \in after : \A j \in after : i <= j
                     IN SubSeq(sorted, 1, p - 1) \o <<x>> \o SubSeq(sorted, p, Len(sorted))
        RECURSIVE go(_, _)
        go(i, sorted) == IF i > Len(arr) THEN sorted ELSE go(i + 1, insert(sorted, arr[i]))
    IN go(1, << >>)

\* Array.prototype.sort with a comparator: stable
sort(arr, key) ==
    LET insert(sorted, x) ==
            LET after == {i \in 1..Len(sorted) : compare(x, sorted[i], key) < 0}
            IN  IF after = {} THEN Append(sorted, x)
                ELSE LET p == CHOOSE i \in after : \A j \in after : i <= j
                     IN SubSeq(sorted, 1, p - 1) \o <<x>> \o SubSeq(sorted, p, Len(sorted))
        RECURSIVE go(_, _)
        go(i, sorted) == IF i > Len(arr) THEN sorted ELSE go(i + 1, insert(sorted, arr[i]))
    IN go(1, << >>)

\* the useMemo body: the filtered and sorted copy (result) and the array the
\* initialLibrary prop refers to when the body returns (source)
filteredLibraryMemo(library, query, genre, source, key) ==
    LET copy == library
        searched == IF query # EmptyString
                    THEN LET q == toLowerCase(query)
                             Keep(item) == matchesSearch(item, q)
                         IN SelectSeq(copy, Keep)
                    ELSE copy
        byGenre == IF genre # All
                   THEN LET Keep(item) == matchesField(item.genre, genre)
                        IN SelectSeq(searched, Keep)
                   ELSE searched
        bySource == IF source # All
                    THEN LET Keep(item) == matchesField(item.sources, source)
                         IN SelectSeq(byGenre, Keep)
                    ELSE byGenre
    IN [result |-> sort(bySource, key), source |-> library]

\* Array.prototype.reduce((sum, i) => sum + ..., 0) over the values
sum(values) ==
    LET RECURSIVE go(_)
        go(i) == IF i > Len(values) THEN 0 ELSE values[i] + go(i + 1)
    IN go(1)

uniqueArtists == Cardinality({initialLibrary[i].artist_name : i \in DOMAIN initialLibrary})

uniqueGenres == Cardinality(allGenres)

\* totalPlays taken over the filtered view
totalPlays_Filtered ==
    sum([i \in DOMAIN filteredLibrary |-> filteredLibrary[i].play_count])

totalPlays ==
    sum([i \in DOMAIN initialLibrary |-> initialLibrary[i].play_count])

totalLikes ==
    sum([i \in DOMAIN initialLibrary |-> initialLibrary[i].like_count])

\* (i.duration_seconds || 0)
totalDuration ==
    sum([i \in DOMAIN initialLibrary |->
            IF initialLibrary[i].duration_seconds = << >> THEN 0
            ELSE initialLibrary[i].duration_seconds[1]])

hasActiveFilters ==
    searchQuery # EmptyString \/ genreFilter # All \/ sourceFilter # All

(***************************************************************************)
(* LibraryPageClient: handlers                                             *)
(***************************************************************************)
\* the re-render after a state change: useMemo recomputes filteredLibrary
render(query, genre, source, key) ==
    LET memo == filteredLibraryMemo(initialLibrary, query, genre, source, key)
    IN  /\ filteredLibrary' = memo.result
        /\ initialLibrary' = memo.source

\* onChange of the search input
setSearchQuery(query) ==
    /\ searchQuery' = query
    /\ UNCHANGED <<genreFilter, sourceFilter, sortBy>>
    /\ render(query, genreFilter, sourceFilter, sortBy)
    /\ cleared' = FALSE
    /\ UNCHANGED <<servicesVars, durationVars>>

\* onChange of the genre select
setGenreFilter(genre) ==
    /\ genre \in genreOptions
    /\ genreFilter' = genre
    /\ UNCHANGED <<searchQuery, sourceFilter, sortBy>>
    /\ render(searchQuery, genre, sourceFilter, sortBy)
    /\ cleared' = FALSE
    /\ UNCHANGED <<servicesVars, durationVars>>

\* onChange of the source select
setSourceFilter(source) ==
    /\ source \in sourceOptions
    /\ sourceFilter' = source
    /\ UNCHANGED <<searchQuery, genreFilter, sortBy>>
    /\ render(searchQuery, genreFilter, source, sortBy)
    /\ cleared' = FALSE
    /\ UNCHANGED <<servicesVars, durationVars>>

\* onChange of the sort select
setSortBy(key) ==
    /\ sortBy' = key
    /\ UNCHANGED <<searchQuery, genreFilter, sourceFilter>>
    /\ render(searchQuery, genreFilter, sourceFilter, key)
    /\ cleared' = FALSE
    /\ UNCHANGED <<servicesVars, durationVars>>

\* clearFilters without setSourceFilter('all')
clearFilters_KeepsSource ==
    /\ hasActiveFilters
    /\ searchQuery' = EmptyString
    /\ genreFilter' = All
    /\ UNCHANGED <<sourceFilter, sortBy>>
    /\ render(EmptyString, All, sourceFilter, sortBy)
    /\ cleared' = TRUE
    /\ UNCHANGED <<servicesVars, durationVars>>

\* the Clear button, rendered while hasActiveFilters
clearFilters ==
    /\ hasActiveFilters
    /\ searchQuery' = EmptyString
    /\ genreFilter' = All
    /\ sourceFilter' = All
    /\ UNCHANGED sortBy
    /\ render(EmptyString, All, All, sortBy)
    /\ cleared' = TRUE
    /\ UNCHANGED <<servicesVars, durationVars>>

\* the page is rendered from the rows getLibrary returned
LibraryInit ==
    /\ initialLibrary \in getLibrary
    /\ searchQuery = EmptyString
    /\ genreFilter = All
    /\ sourceFilter = All
    /\ sortBy = "recent"
    /\ filteredLibrary =
          filteredLibraryMemo(initialLibrary, EmptyString, All, All, "recent").result
    /\ cleared = FALSE
    /\ view = "constructed"
    /\ services = << >>
    /\ restartingServices = {}
    /\ loading = TRUE
    /\ error = Null
    /\ tasks = EmptyBag
    /\ lastCompleted = NoCompletion
    /\ prevKind = "none"
    /\ duration_seconds = << >>
    /\ durationText = << >>

LibraryNext ==
    \/ \E query \in Queries : setSearchQuery(query)
    \/ \E genre \in genreOptions : setGenreFilter(genre)
    \/ \E source \in sourceOptions : setSourceFilter(source)
    \/ \E key \in SortKeys : setSortBy(key)
    \/ clearFilters

LibrarySpec == LibraryInit /\ [][LibraryNext]_vars

(***************************************************************************)
(* LibraryCard: formatDuration                                             *)
(***************************************************************************)
\* the largest duration rendered
MaxSeconds == 3700

Digits == <<"0", "1", "2", "3", "4", "5", "6", "7", "8", "9">>

\* Number.prototype.toString for a natural number
toString(n) ==
    LET RECURSIVE go(_)
        go(m) == IF m < 10 THEN <<Digits[m + 1]>>
                 ELSE Append(go(m \div 10), Digits[(m % 10) + 1])
    IN go(n)

\* String.prototype.padStart
padStart(s, targetLength, padString) ==
    LET RECURSIVE go(_)
        go(t) == IF Len(t) >= targetLength THEN t ELSE go(<<padString>> \o t)
    IN go(s)

Placeholder == <<"-", "-", ":", "-", "-">>

\* formatDuration without padStart
formatDuration_NoPad(seconds) ==
    IF seconds = << >> \/ seconds[1] = 0 THEN Placeholder
    ELSE toString(seconds[1] \div 60) \o <<":">> \o toString(seconds[1] % 60)

formatDuration(seconds) ==
    IF seconds = << >> \/ seconds[1] = 0 THEN Placeholder
    ELSE LET mins == seconds[1] \div 60
             secs == seconds[1] % 60
         IN toString(mins) \o <<":">> \o padStart(toString(secs), 2, "0")

\* the duration cell of a card: formatDuration(item.duration_seconds)
RenderDuration ==
    /\ durationText = << >>
    /\ durationText' = formatDuration(duration_seconds)
    /\ UNCHANGED duration_seconds
    /\ UNCHANGED <<servicesVars, libraryVars>>

DurationInit ==
    /\ duration_seconds \in {<< >>} \cup {<<n>> : n \in 0..MaxSeconds}
    /\ durationText = << >>
    /\ view = "constructed"
    /\ services = << >>
    /\ restartingServices = {}
    /\ loading = TRUE
    /\ error = Null
    /\ tasks = EmptyBag
    /\ lastCompleted = NoCompletion
    /\ prevKind = "none"
    /\ initialLibrary = << >>
    /\ searchQuery = << >>
    /\ genreFilter = <<"a", "l", "l">>
    /\ sourceFilter = <<"a", "l", "l">>
    /\ sortBy = "recent"
    /\ filteredLibrary = << >>
    /\ cleared = FALSE

DurationNext == RenderDuration

DurationSpec == DurationInit /\ [][DurationNext]_vars


(***************************************************************************)
(* LibraryPageClient and LibraryCard: properties                           *)
(***************************************************************************)
SameLetter(c, d) ==
    c = d \/ \E i \in DOMAIN UpperCase : {c, d} = {UpperCase[i], LowerCase[i]}

\* sub occurs in s when the case of letters is disregarded
CaseInsensitiveSubstring(sub, s) ==
    \E offset \in 0..(Len(s) - Len(sub)) :
        \A k \in 1..Len(sub) : SameLetter(s[offset + k], sub[k])

FieldContains(field, selected) ==
    field # << >> /\ CaseInsensitiveSubstring(selected, field[1])

ItemsOf(seq) == {seq[i] : i \in DOMAIN seq}

\* C5: filteredLibrary holds only items of initialLibrary, each at most once,
\* and each satisfies every active criterion: the query is a case-insensitive
\* substring of its title, artist name or album; the genre selector is 'all'
\* or a case-insensitive substring of its genre field; likewise the source
\* selector and its sources field.
C5_FilteredSatisfiesCriteria ==
    /\ \A i \in DOMAIN filteredLibrary :
          \E j \in DOMAIN initialLibrary : initialLibrary[j] = filteredLibrary[i]
    /\ \A i, j \in DOMAIN filteredLibrary :
          i # j => filteredLibrary[i] # filteredLibrary[j]
    /\ \A i \in DOMAIN filteredLibrary :
          LET item == filteredLibrary[i]
          IN  /\ \/ CaseInsensitiveSubstring(searchQuery, item.title)
                 \/ CaseInsensitiveSubstring(searchQuery, item.artist_name)
                 \/ FieldContains(item.album, searchQuery)
              /\ genreFilter = <<"a", "l", "l">> \/ FieldContains(item.genre, genreFilter)
              /\ sourceFilter = <<"a", "l", "l">> \/ FieldContains(item.sources, sourceFilter)

\* C5 witness: all three criteria are active and keep some items but not all.
C5_Witness ==
    /\ searchQuery # << >>
    /\ genreFilter # <<"a", "l", "l">>
    /\ sourceFilter # <<"a", "l", "l">>
    /\ filteredLibrary # << >>
    /\ Len(filteredLibrary) < Len(initialLibrary)

\* a before b is in order under the sort key
InOrder(a, b, key) ==
    CASE key = "recent" -> getTime(a.last_added) >= getTime(b.last_added)
      [] key = "title" -> localeCompare(a.title, b.title) <= 0
      [] key = "artist" -> localeCompare(a.artist_name, b.artist_name) <= 0
      [] key = "plays" -> a.play_count >= b.play_count
      [] key = "likes" -> a.like_count >= b.like_count

OrderedBy(seq, key) ==
    \A i, j \in DOMAIN seq : i < j => InOrder(seq[i], seq[j], key)

PositionIn(seq, x) == CHOOSE i \in DOMAIN seq : seq[i] = x

\* items that tie under the key stand as they stand in initialLibrary
TiesKeepLibraryOrder(seq, key) ==
    \A i, j \in DOMAIN seq :
        (i < j /\ InOrder(seq[j], seq[i], key))
            => PositionIn(initialLibrary, seq[i]) < PositionIn(initialLibrary, seq[j])

ViewKeepsTies == TiesKeepLibraryOrder(filteredLibrary, sortBy)

\* C6 as stated: clearFilters empties the query, sets both selectors to 'all',
\* restores the recent sort so that filteredLibrary is initialLibrary in its
\* order, and leaves hasActiveFilters false.
C6_ClearRestoresRecentOrder ==
    [][clearFilters =>
          /\ searchQuery' = << >>
          /\ genreFilter' = <<"a", "l", "l">>
          /\ sourceFilter' = <<"a", "l", "l">>
          /\ sortBy' = "recent"
          /\ filteredLibrary' = initialLibrary'
          /\ ~hasActiveFilters']_vars

\* C6 amended: clearFilters empties the query, sets both selectors to 'all'
\* and leaves hasActiveFilters false; the sort key stays as it was, and
\* filteredLibrary is then all of initialLibrary arranged by that key (ties in
\* library order), which is initialLibrary's own order when the key is recent.
C6_ClearKeepsSortKey ==
    [][clearFilters =>
          /\ searchQuery' = << >>
          /\ genreFilter' = <<"a", "l", "l">>
          /\ sourceFilter' = <<"a", "l", "l">>
          /\ ~hasActiveFilters'
          /\ sortBy' = sortBy
          /\ initialLibrary' = initialLibrary
          /\ Len(filteredLibrary') = Len(initialLibrary')
          /\ ItemsOf(filteredLibrary') = ItemsOf(initialLibrary')
          /\ OrderedBy(filteredLibrary', sortBy')
          /\ ViewKeepsTies'
          /\ (sortBy' = "recent" => filteredLibrary' = initialLibrary')]_vars

\* C6 witness: clearFilters has just run under the title sort, and the view is
\* the whole library in another order than initialLibrary's.
C6_Witness ==
    /\ cleared
    /\ ~hasActiveFilters
    /\ sortBy = "title"
    /\ Len(filteredLibrary) = Len(initialLibrary)
    /\ filteredLibrary # initialLibrary

\* C7: with an empty query and the other selector at 'all', a genre selector
\* yields exactly the items whose raw genre field contains it as a
\* case-insensitive substring (null genres excluded), and likewise the source
\* selector; in the library {Pop,Rock / spotify_import}, {Jazz / request},
\* 'Rock' yields the first item and 'request' the second; 'Pop' also selects
\* an item tagged 'K-Pop'.
C7_SelectorsMatchBySubstring ==
    /\ (searchQuery = << >> /\ sourceFilter = <<"a", "l", "l">>
          /\ genreFilter # <<"a", "l", "l">>)
          => ItemsOf(filteredLibrary) =
                {x \in ItemsOf(initialLibrary) : FieldContains(x.genre, genreFilter)}
    /\ (searchQuery = << >> /\ genreFilter = <<"a", "l", "l">>
          /\ sourceFilter # <<"a", "l", "l">>)
          => ItemsOf(filteredLibrary) =
                {x \in ItemsOf(initialLibrary) : FieldContains(x.sources, sourceFilter)}
    /\ Item1.genre = << <<"P", "o", "p", ",", "R", "o", "c", "k">> >>
    /\ Item2.genre = << <<"J", "a", "z", "z">> >>
    /\ Item3.genre = << <<"K", "-", "P", "o", "p">> >>
    /\ (ItemsOf(initialLibrary) = {Item1, Item2} /\ searchQuery = << >>)
          => /\ (genreFilter = <<"R", "o", "c", "k">> /\ sourceFilter = <<"a", "l", "l">>)
                    => filteredLibrary = <<Item1>>
             /\ (sourceFilter = <<"r", "e", "q", "u", "e", "s", "t">>
                    /\ genreFilter = <<"a", "l", "l">>)
                    => filteredLibrary = <<Item2>>
    /\ (searchQuery = << >> /\ sourceFilter = <<"a", "l", "l">>
          /\ genreFilter = <<"P", "o", "p">> /\ Item3 \in ItemsOf(initialLibrary))
          => Item3 \in ItemsOf(filteredLibrary)

\* C7 witness: the genre selector 'Pop' alone is active and the item tagged
\* 'K-Pop' is in the view.
C7_Witness ==
    /\ searchQuery = << >>
    /\ sourceFilter = <<"a", "l", "l">>
    /\ genreFilter = <<"P", "o", "p">>
    /\ Item3 \in ItemsOf(filteredLibrary)
    /\ Len(filteredLibrary) < Len(initialLibrary)

Statistics == <<uniqueArtists, uniqueGenres, totalPlays, totalLikes, totalDuration>>

\* C8: no handler of the page changes an aggregate statistic or the
\* initialLibrary array (its items and their order).
C8_StatisticsIgnoreFilters ==
    [][initialLibrary' = initialLibrary /\ Statistics' = Statistics]_vars

\* C8 witness: a filter hides played items, and the total play count still
\* counts them.
C8_Witness ==
    /\ hasActiveFilters
    /\ Len(filteredLibrary) < Len(initialLibrary)
    /\ sum([i \in DOMAIN filteredLibrary |-> filteredLibrary[i].play_count]) < totalPlays

Arrangements(seq) ==
    { [i \in DOMAIN seq |-> seq[p[i]]] :
        p \in {q \in [DOMAIN seq -> DOMAIN seq] : \A i, j \in DOMAIN seq : i # j => q[i] # q[j]} }

\* C9: for each of the five keys, sorting a list that is already in order
\* under the key returns it as it is, whatever the arrangement of its ties.
C9_SortIdempotent ==
    \A key \in {"recent", "title", "artist", "plays", "likes"} :
        /\ sort(sort(filteredLibrary, key), key) = sort(filteredLibrary, key)
        /\ \A list \in Arrangements(filteredLibrary) :
              OrderedBy(list, key) => sort(list, key) = list

\* C9 witness: the view is sorted by plays and its first two items tie.
C9_Witness ==
    /\ sortBy = "plays"
    /\ Len(filteredLibrary) >= 2
    /\ filteredLibrary[1].play_count = filteredLibrary[2].play_count
    /\ filteredLibrary[1] # filteredLibrary[2]

DigitValue(c) == (CHOOSE i \in DOMAIN Digits : Digits[i] = c) - 1

IsDigits(s) == \A i \in DOMAIN s : \E j \in DOMAIN Digits : Digits[j] = s[i]

ParseDecimal(s) ==
    LET RECURSIVE go(_)
        go(n) == IF n = 0 THEN 0 ELSE 10 * go(n - 1) + DigitValue(s[n])
    IN go(Len(s))

\* C10: a null duration renders '--:--', never a zero duration; a positive
\* number of seconds s renders floor(s/60), a colon and s mod 60 in two
\* digits; 125 renders '2:05'.
C10_FormatDuration ==
    durationText # << >> =>
        /\ duration_seconds = << >> =>
              /\ durationText = <<"-", "-", ":", "-", "-">>
              /\ durationText # <<"0", ":", "0", "0">>
        /\ (duration_seconds # << >> /\ duration_seconds[1] > 0) =>
              LET n == Len(durationText)
                  minutes == SubSeq(durationText, 1, n - 3)
                  seconds == SubSeq(durationText, n - 1, n)
              IN  /\ n >= 4
                  /\ durationText[n - 2] = ":"
                  /\ IsDigits(minutes) /\ IsDigits(seconds)
                  /\ (Len(minutes) > 1 => minutes[1] # "0")
                  /\ ParseDecimal(minutes) * 60 + ParseDecimal(seconds) = duration_seconds[1]
                  /\ ParseDecimal(seconds) < 60
        /\ duration_seconds = <<125>> => durationText = <<"2", ":", "0", "5">>

\* C10 witness: the cell of an item of 125 seconds has been rendered.
C10_Witness ==
    duration_seconds = <<125>> /\ durationText = <<"2", ":", "0", "5">>

====
